---- MODULE Spec2Model ----
(***************************************************************************)
(* Resource-to-cost-component mapping of two resource handlers:            *)
(*   azurerm_key_vault_key  (internal/providers/terraform/azure)           *)
(*   aws_instance           (the aws provider's instance handler)          *)
(* A handler is a pure function of a resource's configuration and the      *)
(* optional usage data.  The state machine draws one resource and one      *)
(* usage estimate, then runs the handler the registry names for the        *)
(* resource type and records what it returned and what it logged.          *)
(*                                                                         *)
(* Strings are TLA+ strings; the Go string functions are computed          *)
(* character by character with SubSeq.  Decimals are exact fractions.      *)
(***************************************************************************)
EXTENDS Integers, Sequences, FiniteSets, TLC

VARIABLES d, u, pc, result, warnings

vars == <<d, u, pc, result, warnings>>

----------------------------------------------------------------------------
(* Bounds of the explored inputs *)

\* hsm_protected_keys is drawn from each tier threshold plus 0..MaxOver
MaxOver == 1
\* largest number of ebs_block_device blocks of an instance
MaxEbs == 1

----------------------------------------------------------------------------
(* Go strings *)

LowerAlpha == "abcdefghijklmnopqrstuvwxyz"
UpperAlpha == "ABCDEFGHIJKLMNOPQRSTUVWXYZ"
DigitChars == "0123456789"

CharAt(s, i) == SubSeq(s, i, i)

IsLower(c) == \E i \in 1..26 : CharAt(LowerAlpha, i) = c
IsUpper(c) == \E i \in 1..26 : CharAt(UpperAlpha, i) = c
IsLetter(c) == IsLower(c) \/ IsUpper(c)

ToUpperChar(c) ==
    IF IsLower(c)
    THEN CharAt(UpperAlpha, CHOOSE i \in 1..26 : CharAt(LowerAlpha, i) = c)
    ELSE c

ToLowerChar(c) ==
    IF IsUpper(c)
    THEN CharAt(LowerAlpha, CHOOSE i \in 1..26 : CharAt(UpperAlpha, i) = c)
    ELSE c

RECURSIVE ToLowerFrom(_, _)
ToLowerFrom(s, i) ==
    IF i > Len(s) THEN "" ELSE ToLowerChar(CharAt(s, i)) \o ToLowerFrom(s, i + 1)

\* strings.ToLower
ToLower(s) == ToLowerFrom(s, 1)

RECURSIVE TitleFrom(_, _)
TitleFrom(s, i) ==
    IF i > Len(s) THEN ""
    ELSE LET c == CharAt(s, i)
             startsWord == i = 1 \/ ~IsLetter(CharAt(s, i - 1))
         IN  (IF startsWord THEN ToUpperChar(c) ELSE c) \o TitleFrom(s, i + 1)

\* strings.Title: the first letter of every word is upper-cased
Title(s) == TitleFrom(s, 1)

\* strings.HasPrefix
HasPrefix(s, p) == Len(s) >= Len(p) /\ SubSeq(s, 1, Len(p)) = p

\* strings.HasSuffix
HasSuffix(s, p) == Len(s) >= Len(p) /\ SubSeq(s, Len(s) - Len(p) + 1, Len(s)) = p

\* strings.SplitN(s, ".", 2)[0]: the text before the first ".", all of s if
\* there is none
SplitFirst(s) ==
    IF \E i \in 1..Len(s) : CharAt(s, i) = "."
    THEN LET k == CHOOSE i \in 1..Len(s) :
                     /\ CharAt(s, i) = "."
                     /\ \A j \in 1..(i - 1) : CharAt(s, j) # "."
         IN  SubSeq(s, 1, k - 1)
    ELSE s

RECURSIVE IntToStr(_)
\* the decimal text of a non-negative integer
IntToStr(n) ==
    IF n < 10 THEN CharAt(DigitChars, n + 1)
    ELSE IntToStr(n \div 10) \o CharAt(DigitChars, (n % 10) + 1)

----------------------------------------------------------------------------
(* gjson results *)

Absent == [Type |-> "Null", Str |-> "", Num |-> 0]
JString(s) == [Type |-> "String", Str |-> s, Num |-> 0]
JNumber(n) == [Type |-> "Number", Str |-> "", Num |-> n]
JTrue == [Type |-> "True", Str |-> "", Num |-> 0]
JFalse == [Type |-> "False", Str |-> "", Num |-> 0]

\* Result.Exists (no input holds an explicit JSON null, so a result exists
\* exactly when its type is not Null)
Exists(r) == r.Type # "Null"

\* Result.String
String(r) ==
    CASE r.Type = "String" -> r.Str
      [] r.Type = "Number" -> IntToStr(r.Num)
      [] r.Type = "True" -> "true"
      [] r.Type = "False" -> "false"
      [] OTHER -> ""

\* Result.Int
Int64(r) ==
    CASE r.Type = "Number" -> r.Num
      [] r.Type = "True" -> 1
      [] OTHER -> 0

\* Result.Bool
Bool(r) ==
    CASE r.Type = "True" -> TRUE
      [] r.Type = "Number" -> r.Num # 0
      [] OTHER -> FALSE

----------------------------------------------------------------------------
(* Resource Data View and Usage Data View *)

\* ResourceData.Get / UsageData.Get: the value at a path, or the absent value
Get(data, path) == IF path \in DOMAIN data THEN data[path] ELSE Absent

\* ResourceData.References: the resources a link attribute resolves to, the
\* empty sequence if unresolved or absent
References(rd, attr) == IF attr \in DOMAIN rd.refs THEN rd.refs[attr] ELSE <<>>

\* a usage data pointer: nil, or a map of usage keys
NilUsage == [isNil |-> TRUE, data |-> <<>>]
UsageOf(m) == [isNil |-> FALSE, data |-> m]

----------------------------------------------------------------------------
(* Pointers and decimals *)

NilPtr == [set |-> FALSE]
strPtr(s) == [set |-> TRUE, val |-> s]
decimalPtr(x) == [set |-> TRUE, val |-> x]

RECURSIVE Gcd(_, _)
Gcd(a, b) == IF b = 0 THEN a ELSE Gcd(b, a % b)

Abs(n) == IF n < 0 THEN -n ELSE n

\* a decimal is a fraction in lowest terms with a positive denominator
Frac(n, m) ==
    LET g == Gcd(Abs(n), Abs(m))
        s == IF m < 0 THEN -1 ELSE 1
    IN  [num |-> (s * n) \div g, den |-> (s * m) \div g]

\* decimal.NewFromInt
NewFromInt(n) == [num |-> n, den |-> 1]
\* decimal.Zero
DecZero == NewFromInt(0)
\* Decimal.Div (exact for the divisors 1 and 10000 used here)
DecDiv(a, b) == Frac(a.num * b.den, a.den * b.num)
\* Decimal.Sub
DecSub(a, b) == Frac(a.num * b.den - b.num * a.den, a.den * b.den)
\* Decimal.GreaterThan
GreaterThan(a, b) == a.num * b.den > b.num * a.den

----------------------------------------------------------------------------
(* Handler results *)

\* the handler aborted with a run-time panic
Panicked == [kind |-> "panic", warnings |-> <<>>]
\* the handler returned nil after logging one warning
Skipped(w) == [kind |-> "nil", warnings |-> <<w>>]
\* the handler returned a resource
Returned(r, w) == [kind |-> "resource", resource |-> r, warnings |-> w]

\* log.Warnf
Warnf(msg, arg) == [level |-> "warning", msg |-> msg, arg |-> arg]

----------------------------------------------------------------------------
(* Tiered-Quantity Allocator *)

RECURSIVE TierBucketsFrom(_, _, _)
TierBucketsFrom(remaining, limits, i) ==
    IF i > Len(limits) THEN <<remaining>>
    ELSE LET limit == NewFromInt(limits[i])
             value == IF GreaterThan(remaining, limit) THEN limit ELSE remaining
         IN  <<value>> \o TierBucketsFrom(DecSub(remaining, value), limits, i + 1)

\* usage.CalculateTierBuckets: tier i receives min(remaining, width i), the
\* rest cascades, the last bucket absorbs the remainder
CalculateTierBuckets(total, limits) == TierBucketsFrom(total, limits, 1)

----------------------------------------------------------------------------
(* azurerm_key_vault_key *)

vaultKeysCostComponent_noDiv(name, location, unit, skuName, meterName, startUsage, quantity, multi) ==
    [ Name |-> name,
      Unit |-> unit,
      UnitMultiplier |-> 1,
      MonthlyQuantity |-> quantity,
      ProductFilter |->
        [ VendorName |-> strPtr("azure"),
          Region |-> strPtr(location),
          Service |-> strPtr("Key Vault"),
          ProductFamily |-> strPtr("Security"),
          AttributeFilters |->
            << [Key |-> "productName", Value |-> strPtr("Key Vault")],
               [Key |-> "skuName", Value |-> strPtr(skuName)],
               [Key |-> "meterName", Value |-> strPtr(meterName)] >> ],
      PriceFilter |->
        [ PurchaseOption |-> strPtr("Consumption"),
          StartUsageAmount |-> strPtr(startUsage) ] ]

vaultKeysCostComponent(name, location, unit, skuName, meterName, startUsage, quantity, multi) ==
    [ Name |-> name,
      Unit |-> unit,
      UnitMultiplier |-> 1,
      MonthlyQuantity |->
        IF quantity.set
        THEN decimalPtr(DecDiv(quantity.val, NewFromInt(multi)))
        ELSE quantity,
      ProductFilter |->
        [ VendorName |-> strPtr("azure"),
          Region |-> strPtr(location),
          Service |-> strPtr("Key Vault"),
          ProductFamily |-> strPtr("Security"),
          AttributeFilters |->
            << [Key |-> "productName", Value |-> strPtr("Key Vault")],
               [Key |-> "skuName", Value |-> strPtr(skuName)],
               [Key |-> "meterName", Value |-> strPtr(meterName)] >> ],
      PriceFilter |->
        [ PurchaseOption |-> strPtr("Consumption"),
          StartUsageAmount |-> strPtr(startUsage) ] ]

\* `u != nil && u.Get(key).Exists()`
UsageHas(ud, key) == ~ud.isNil /\ Exists(Get(ud.data, key))

\* a *decimal.Decimal that stays nil unless the usage key exists
UsageDecimal(ud, key) ==
    IF UsageHas(ud, key)
    THEN decimalPtr(NewFromInt(Int64(Get(ud.data, key))))
    ELSE NilPtr

\* the four components every key emits; meterName is "Secret Renewal" after
\* the last of them
operationsCostComponents(location, skuName, ud) ==
    LET unit == "10K transactions"
        secretsTransactions == UsageDecimal(ud, "monthly_secrets_operations")
        certificateRenewals == UsageDecimal(ud, "monthly_certificate_renewal_requests")
        certificateOperations == UsageDecimal(ud, "monthly_certificate_other_operations")
        keyRotationRenewals == UsageDecimal(ud, "monthly_key_rotation_renewals")
    IN  << vaultKeysCostComponent("Secrets operations", location, unit, skuName,
                                  "Operations", "0", secretsTransactions, 10000),
           vaultKeysCostComponent("Certificate operations", location, "renewals", skuName,
                                  "Certificate Renewal Request", "0", certificateRenewals, 1),
           vaultKeysCostComponent("Certificate operations", location, unit, skuName,
                                  "Operations", "0", certificateOperations, 10000),
           vaultKeysCostComponent("Storage key rotation", location, "renewals", skuName,
                                  "Secret Renewal", "0", keyRotationRenewals, 1) >>

\* the branch taken when key_type does not end in "HSM"
softwareKeyCostComponents(location, skuName, keyType, keySize, ud) ==
    LET unit == "10K transactions"
        softwareProtectedTransactions == UsageDecimal(ud, "monthly_protected_keys_operations")
        name == "Software-protected keys"
        meterName == IF keyType = "RSA" /\ keySize = "2048"
                     THEN "Operations"
                     ELSE "Advanced Key Operations"
    IN  << vaultKeysCostComponent(name, location, unit, skuName, meterName, "0",
                                  softwareProtectedTransactions, 10000) >>

tierLimits == <<250, 1250, 2500>>

hsmTierCostComponents_lastAlways(name, location, keyUnit, skuName, meterName, protectedKeys) ==
    LET keysQuantities == CalculateTierBuckets(protectedKeys.val, tierLimits)
    IN  << vaultKeysCostComponent(name \o " (first 250)", location, keyUnit, skuName,
                                  meterName, "0", decimalPtr(keysQuantities[1]), 1) >>
        \o (IF GreaterThan(keysQuantities[2], DecZero)
            THEN << vaultKeysCostComponent(name \o " (next 1250)", location, keyUnit, skuName,
                                           meterName, "250", decimalPtr(keysQuantities[2]), 1) >>
            ELSE <<>>)
        \o (IF GreaterThan(keysQuantities[3], DecZero)
            THEN << vaultKeysCostComponent(name \o " (next 2500)", location, keyUnit, skuName,
                                           meterName, "1500", decimalPtr(keysQuantities[3]), 1) >>
            ELSE <<>>)
        \o << vaultKeysCostComponent(name \o " (over 4000)", location, keyUnit, skuName,
                                     meterName, "4000", decimalPtr(keysQuantities[4]), 1) >>

hsmTierCostComponents_sameBucket(name, location, keyUnit, skuName, meterName, protectedKeys) ==
    LET keysQuantities == CalculateTierBuckets(protectedKeys.val, tierLimits)
    IN  << vaultKeysCostComponent(name \o " (first 250)", location, keyUnit, skuName,
                                  meterName, "0", decimalPtr(keysQuantities[1]), 1) >>
        \o (IF GreaterThan(keysQuantities[2], DecZero)
            THEN << vaultKeysCostComponent(name \o " (next 1250)", location, keyUnit, skuName,
                                           meterName, "250", decimalPtr(keysQuantities[2]), 1) >>
            ELSE <<>>)
        \o (IF GreaterThan(keysQuantities[3], DecZero)
            THEN << vaultKeysCostComponent(name \o " (next 2500)", location, keyUnit, skuName,
                                           meterName, "1500", decimalPtr(keysQuantities[2]), 1) >>
            ELSE <<>>)
        \o (IF GreaterThan(keysQuantities[4], DecZero)
            THEN << vaultKeysCostComponent(name \o " (over 4000)", location, keyUnit, skuName,
                                           meterName, "4000", decimalPtr(keysQuantities[4]), 1) >>
            ELSE <<>>)

\* the tiered "HSM-protected keys" components of an advanced HSM key
hsmTierCostComponents(name, location, keyUnit, skuName, meterName, protectedKeys) ==
    LET keysQuantities == CalculateTierBuckets(protectedKeys.val, tierLimits)
    IN  << vaultKeysCostComponent(name \o " (first 250)", location, keyUnit, skuName,
                                  meterName, "0", decimalPtr(keysQuantities[1]), 1) >>
        \o (IF GreaterThan(keysQuantities[2], DecZero)
            THEN << vaultKeysCostComponent(name \o " (next 1250)", location, keyUnit, skuName,
                                           meterName, "250", decimalPtr(keysQuantities[2]), 1) >>
            ELSE <<>>)
        \o (IF GreaterThan(keysQuantities[3], DecZero)
            THEN << vaultKeysCostComponent(name \o " (next 2500)", location, keyUnit, skuName,
                                           meterName, "1500", decimalPtr(keysQuantities[3]), 1) >>
            ELSE <<>>)
        \o (IF GreaterThan(keysQuantities[4], DecZero)
            THEN << vaultKeysCostComponent(name \o " (over 4000)", location, keyUnit, skuName,
                                           meterName, "4000", decimalPtr(keysQuantities[4]), 1) >>
            ELSE <<>>)

\* the branch taken when key_type ends in "HSM" and the vault is Premium;
\* meterName is the value the variable holds when the branch is entered
hsmKeyCostComponents(location, skuName, keyType, keySize, meterName, ud) ==
    LET unit == "10K transactions"
        name == "HSM-protected keys"
        keyUnit == "months"
        protectedKeys == UsageDecimal(ud, "hsm_protected_keys")
        hsmProtectedTransactions == UsageDecimal(ud, "monthly_protected_keys_operations")
        keys ==
            IF UsageHas(ud, "hsm_protected_keys")
            THEN IF keyType = "RSA-HSM" /\ keySize = "2048"
                 THEN << vaultKeysCostComponent(name, location, keyUnit, skuName,
                             "Premium HSM-protected RSA 2048-bit key", "0", protectedKeys, 1) >>
                 ELSE hsmTierCostComponents(name, location, keyUnit, skuName,
                             "Premium HSM-protected Advanced Key", protectedKeys)
            ELSE << vaultKeysCostComponent(name, location, keyUnit, skuName,
                             meterName, "0", NilPtr, 1) >>
        operations ==
            IF UsageHas(ud, "monthly_protected_keys_operations")
            THEN IF keyType = "RSA" /\ keySize = "2048"
                 THEN << vaultKeysCostComponent(name, location, unit, skuName,
                             "Operations", "0", hsmProtectedTransactions, 10000) >>
                 ELSE << vaultKeysCostComponent(name, location, unit, skuName,
                             "Advanced Key Operations", "0", hsmProtectedTransactions, 10000) >>
            ELSE <<>>
    IN  keys \o operations

NewAzureKeyVaultKey(rd, ud) ==
    LET keyVault == References(rd, "key_vault_id")
    IN  IF Len(keyVault) = 0
        THEN Panicked  \* keyVault[0]: index out of range
        ELSE
          LET location == String(Get(keyVault[1].attrs, "location"))
          IN  IF location = ""
              THEN Skipped(Warnf("Skipping resource %s. Infracost currently cannot find the location for this resource.", rd.Address))
              ELSE
                LET skuName == Title(String(Get(keyVault[1].attrs, "sku_name")))
                    keyType == String(Get(rd.attrs, "key_type"))
                    keySize == IF Get(rd.attrs, "key_size").Type # "Null"
                               THEN String(Get(rd.attrs, "key_size"))
                               ELSE ""
                    isHSM == HasSuffix(keyType, "HSM")
                    always == operationsCostComponents(location, skuName, ud)
                    software == IF ~isHSM
                                THEN softwareKeyCostComponents(location, skuName, keyType, keySize, ud)
                                ELSE <<>>
                    \* the value the meterName variable holds after the
                    \* always-emitted components and the software branch
                    meterName == IF ~isHSM
                                 THEN IF keyType = "RSA" /\ keySize = "2048"
                                      THEN "Operations"
                                      ELSE "Advanced Key Operations"
                                 ELSE "Secret Renewal"
                    hsm == IF isHSM /\ skuName = "Premium"
                           THEN hsmKeyCostComponents(location, skuName, keyType, keySize, meterName, ud)
                           ELSE <<>>
                IN  Returned([Name |-> rd.Address,
                              SubResources |-> <<>>,
                              CostComponents |-> always \o software \o hsm], <<>>)

----------------------------------------------------------------------------
(* aws_instance *)

defaultEC2InstanceMetricCount == 7
\* the volume size assumed when a block device names none
defaultVolumeSize == 8

\* the purchaseOptionLabel map; a missing key yields ""
purchaseOptionLabelOf(purchaseOption) ==
    CASE purchaseOption = "on_demand" -> "on-demand"
      [] purchaseOption = "spot" -> "spot"
      [] OTHER -> ""

\* the reservedTermName map
reservedTermNameOf(reservedTerm) ==
    CASE reservedTerm = "1_year" -> "1yr"
      [] reservedTerm = "3_year" -> "3yr"
      [] OTHER -> ""

\* the reservedPaymentOptionName map
reservedPaymentOptionNameOf(reservedPaymentOption) ==
    CASE reservedPaymentOption = "no_upfront" -> "No Upfront"
      [] reservedPaymentOption = "partial_upfront" -> "Partial Upfront"
      [] reservedPaymentOption = "all_upfront" -> "All Upfront"
      [] OTHER -> ""

\* fmt.Sprintf("Instance usage (%s, %s, %s)", ...)
InstanceUsageName(osLabel, purchaseOptionLabel, instanceType) ==
    "Instance usage (" \o osLabel \o ", " \o purchaseOptionLabel \o ", " \o instanceType \o ")"

InstanceProductFilter(region, instanceType, tenancy, operatingSystem) ==
    [ VendorName |-> strPtr("aws"),
      Region |-> strPtr(region),
      Service |-> strPtr("AmazonEC2"),
      ProductFamily |-> strPtr("Compute Instance"),
      AttributeFilters |->
        << [Key |-> "instanceType", Value |-> strPtr(instanceType), ValueRegex |-> NilPtr],
           [Key |-> "tenancy", Value |-> strPtr(tenancy), ValueRegex |-> NilPtr],
           [Key |-> "operatingSystem", Value |-> strPtr(operatingSystem), ValueRegex |-> NilPtr],
           [Key |-> "preInstalledSw", Value |-> strPtr("NA"), ValueRegex |-> NilPtr],
           [Key |-> "capacitystatus", Value |-> strPtr("Used"), ValueRegex |-> NilPtr] >> ]

reservedInstanceCostComponent(region, osLabel, purchaseOptionLabel, reservedType, reservedTerm, reservedPaymentOption, tenancy, instanceType, operatingSystem, count) ==
    [ Name |-> InstanceUsageName(osLabel, purchaseOptionLabel, instanceType),
      Unit |-> "hours",
      UnitMultiplier |-> 1,
      HourlyQuantity |-> decimalPtr(NewFromInt(count)),
      MonthlyQuantity |-> NilPtr,
      IgnoreIfMissingPrice |-> FALSE,
      ProductFilter |-> InstanceProductFilter(region, instanceType, tenancy, operatingSystem),
      PriceFilter |->
        [ PurchaseOption |-> NilPtr,
          StartUsageAmount |-> strPtr("0"),
          TermOfferingClass |-> strPtr(reservedType),
          TermLength |-> strPtr(reservedTermNameOf(reservedTerm)),
          TermPurchaseOption |-> strPtr(reservedPaymentOptionNameOf(reservedPaymentOption)) ] ]

\* the operating system named by the usage data: <<osLabel, operatingSystem>>
\* and the warnings logged while reading it
operatingSystemOf(ud) ==
    IF UsageHas(ud, "operating_system")
    THEN LET os == ToLower(String(Get(ud.data, "operating_system")))
         IN  CASE os = "windows" -> [osLabel |-> "Windows", operatingSystem |-> "Windows", warnings |-> <<>>]
               [] os = "rhel" -> [osLabel |-> "RHEL", operatingSystem |-> "RHEL", warnings |-> <<>>]
               [] os = "suse" -> [osLabel |-> "SUSE", operatingSystem |-> "SUSE", warnings |-> <<>>]
               [] OTHER ->
                    [osLabel |-> "Linux/UNIX", operatingSystem |-> "Linux",
                     warnings |-> IF os # "linux"
                                  THEN <<Warnf("Unrecognized operating system %s, defaulting to Linux/UNIX", os)>>
                                  ELSE <<>>]
    ELSE [osLabel |-> "Linux/UNIX", operatingSystem |-> "Linux", warnings |-> <<>>]

computeCostComponent_onDemandOnly(rd, ud, purchaseOption, tenancy) ==
    LET region == String(Get(rd.attrs, "region"))
        instanceType == String(Get(rd.attrs, "instance_type"))
        os == operatingSystemOf(ud)
        hasReserved == UsageHas(ud, "reserved_instance_type")
        purchaseOptionLabel == IF hasReserved THEN "reserved"
                               ELSE purchaseOptionLabelOf(purchaseOption)
    IN  [ component |->
            [ Name |-> InstanceUsageName(os.osLabel, purchaseOptionLabel, instanceType),
              Unit |-> "hours",
              UnitMultiplier |-> 1,
              HourlyQuantity |-> decimalPtr(NewFromInt(1)),
              MonthlyQuantity |-> NilPtr,
              IgnoreIfMissingPrice |-> FALSE,
              ProductFilter |-> InstanceProductFilter(region, instanceType, tenancy, os.operatingSystem),
              PriceFilter |->
                [ PurchaseOption |-> strPtr(purchaseOption),
                  StartUsageAmount |-> NilPtr,
                  TermOfferingClass |-> NilPtr,
                  TermLength |-> NilPtr,
                  TermPurchaseOption |-> NilPtr ] ],
          warnings |-> os.warnings ]

\* returns the component and the warnings logged while building it
computeCostComponent(rd, ud, purchaseOption, tenancy) ==
    LET region == String(Get(rd.attrs, "region"))
        instanceType == String(Get(rd.attrs, "instance_type"))
        os == operatingSystemOf(ud)
        hasReserved == UsageHas(ud, "reserved_instance_type")
        purchaseOptionLabel == IF hasReserved THEN "reserved"
                               ELSE purchaseOptionLabelOf(purchaseOption)
        reservedIType == IF hasReserved
                         THEN String(Get(ud.data, "reserved_instance_type"))
                         ELSE ""
        reservedTerm == IF hasReserved /\ Exists(Get(ud.data, "reserved_instance_term"))
                        THEN String(Get(ud.data, "reserved_instance_term"))
                        ELSE ""
        reservedPaymentOption ==
            IF hasReserved /\ Exists(Get(ud.data, "reserved_instance_payment_option"))
            THEN String(Get(ud.data, "reserved_instance_payment_option"))
            ELSE ""
    IN  [ component |->
            IF reservedIType # ""
            THEN reservedInstanceCostComponent(region, os.osLabel, purchaseOptionLabel,
                     reservedIType, reservedTerm, reservedPaymentOption, tenancy,
                     instanceType, os.operatingSystem, 1)
            ELSE [ Name |-> InstanceUsageName(os.osLabel, purchaseOptionLabel, instanceType),
                   Unit |-> "hours",
                   UnitMultiplier |-> 1,
                   HourlyQuantity |-> decimalPtr(NewFromInt(1)),
                   MonthlyQuantity |-> NilPtr,
                   IgnoreIfMissingPrice |-> FALSE,
                   ProductFilter |-> InstanceProductFilter(region, instanceType, tenancy, os.operatingSystem),
                   PriceFilter |->
                     [ PurchaseOption |-> strPtr(purchaseOption),
                       StartUsageAmount |-> NilPtr,
                       TermOfferingClass |-> NilPtr,
                       TermLength |-> NilPtr,
                       TermPurchaseOption |-> NilPtr ] ],
          warnings |-> os.warnings ]

NoPriceFilter ==
    [ PurchaseOption |-> NilPtr, StartUsageAmount |-> NilPtr, TermOfferingClass |-> NilPtr,
      TermLength |-> NilPtr, TermPurchaseOption |-> NilPtr ]

ebsOptimizedCostComponent(rd) ==
    LET region == String(Get(rd.attrs, "region"))
        instanceType == String(Get(rd.attrs, "instance_type"))
    IN  [ Name |-> "EBS-optimized usage",
          Unit |-> "hours",
          UnitMultiplier |-> 1,
          HourlyQuantity |-> decimalPtr(NewFromInt(1)),
          MonthlyQuantity |-> NilPtr,
          IgnoreIfMissingPrice |-> TRUE,
          ProductFilter |->
            [ VendorName |-> strPtr("aws"),
              Region |-> strPtr(region),
              Service |-> strPtr("AmazonEC2"),
              ProductFamily |-> strPtr("Compute Instance"),
              AttributeFilters |->
                << [Key |-> "instanceType", Value |-> strPtr(instanceType), ValueRegex |-> NilPtr],
                   [Key |-> "usagetype", Value |-> NilPtr, ValueRegex |-> strPtr("/EBSOptimized/")] >> ],
          PriceFilter |-> NoPriceFilter ]

detailedMonitoringCostComponent(rd) ==
    LET region == String(Get(rd.attrs, "region"))
    IN  [ Name |-> "EC2 detailed monitoring",
          Unit |-> "metrics",
          UnitMultiplier |-> 1,
          HourlyQuantity |-> NilPtr,
          MonthlyQuantity |-> decimalPtr(NewFromInt(defaultEC2InstanceMetricCount)),
          IgnoreIfMissingPrice |-> TRUE,
          ProductFilter |->
            [ VendorName |-> strPtr("aws"),
              Region |-> strPtr(region),
              Service |-> strPtr("AmazonCloudWatch"),
              ProductFamily |-> strPtr("Metric"),
              AttributeFilters |-> <<>> ],
          PriceFilter |->
            [ PurchaseOption |-> NilPtr, StartUsageAmount |-> strPtr("0"),
              TermOfferingClass |-> NilPtr, TermLength |-> NilPtr,
              TermPurchaseOption |-> NilPtr ] ]

\* the component, or NilPtr when the function returns nil
cpuCreditsCostComponentFor(rd, burstable) ==
    LET region == String(Get(rd.attrs, "region"))
        instanceType == String(Get(rd.attrs, "instance_type"))
        declared == String(Get(rd.attrs, "credit_specification.0.cpu_credits"))
        cpuCredits == IF declared = "" /\ (\E p \in burstable : HasPrefix(instanceType, p))
                      THEN "unlimited"
                      ELSE declared
        prefix == SplitFirst(instanceType)
    IN  IF cpuCredits # "unlimited"
        THEN NilPtr
        ELSE [ set |-> TRUE,
               val |->
                 [ Name |-> "CPU credits",
                   Unit |-> "vCPU-hours",
                   UnitMultiplier |-> 1,
                   HourlyQuantity |-> NilPtr,
                   MonthlyQuantity |-> NilPtr,
                   IgnoreIfMissingPrice |-> FALSE,
                   ProductFilter |->
                     [ VendorName |-> strPtr("aws"),
                       Region |-> strPtr(region),
                       Service |-> strPtr("AmazonEC2"),
                       ProductFamily |-> strPtr("CPU Credits"),
                       AttributeFilters |->
                         << [Key |-> "operatingSystem", Value |-> strPtr("Linux"), ValueRegex |-> NilPtr],
                            [Key |-> "usagetype", Value |-> NilPtr,
                             ValueRegex |-> strPtr("/CPUCredits:" \o prefix \o "$/")] >> ],
                   PriceFilter |-> NoPriceFilter ] ]

cpuCreditsCostComponent_t3Only(rd) == cpuCreditsCostComponentFor(rd, {"t3."})

cpuCreditsCostComponent(rd) == cpuCreditsCostComponentFor(rd, {"t3.", "t4g."})

\* the arguments newEbsBlockDevice hands to ebsVolumeCostComponents
newEbsBlockDevice(name, bd, region) ==
    [ Name |-> name,
      region |-> region,
      volumeAPIName |-> IF Exists(Get(bd, "volume_type"))
                        THEN String(Get(bd, "volume_type"))
                        ELSE "gp2",
      gbVal |-> IF Exists(Get(bd, "volume_size"))
                THEN NewFromInt(Int64(Get(bd, "volume_size")))
                ELSE NewFromInt(defaultVolumeSize),
      iopsVal |-> IF Exists(Get(bd, "iops"))
                  THEN NewFromInt(Int64(Get(bd, "iops")))
                  ELSE DecZero ]

newRootBlockDevice(bd, region) == newEbsBlockDevice("root_block_device", bd, region)

newEbsBlockDevices(bds, region) ==
    [ i \in 1..Len(bds) |->
        newEbsBlockDevice("ebs_block_device[" \o IntToStr(i - 1) \o "]", bds[i], region) ]

\* NewInstance after the tenancy guard
instanceResource(rd, ud, tenancy) ==
    LET region == String(Get(rd.attrs, "region"))
        subResources == <<newRootBlockDevice(rd.root_block_device, region)>>
                        \o newEbsBlockDevices(rd.ebs_block_device, region)
        compute == computeCostComponent(rd, ud, "on_demand", tenancy)
        c == cpuCreditsCostComponent(rd)
        costComponents ==
            <<compute.component>>
            \o (IF Bool(Get(rd.attrs, "ebs_optimized")) THEN <<ebsOptimizedCostComponent(rd)>> ELSE <<>>)
            \o (IF Bool(Get(rd.attrs, "monitoring")) THEN <<detailedMonitoringCostComponent(rd)>> ELSE <<>>)
            \o (IF c.set THEN <<c.val>> ELSE <<>>)
    IN  Returned([Name |-> rd.Address,
                  SubResources |-> subResources,
                  CostComponents |-> costComponents], compute.warnings)

NewInstance_hostPriced(rd, ud) ==
    IF String(Get(rd.attrs, "tenancy")) = "dedicated"
    THEN instanceResource(rd, ud, "Dedicated")
    ELSE instanceResource(rd, ud, "Shared")

NewInstance(rd, ud) ==
    IF String(Get(rd.attrs, "tenancy")) = "host"
    THEN Skipped(Warnf("Skipping resource %s. Infracost currently does not support host tenancy for AWS EC2 instances", rd.Address))
    ELSE IF String(Get(rd.attrs, "tenancy")) = "dedicated"
         THEN instanceResource(rd, ud, "Dedicated")
         ELSE instanceResource(rd, ud, "Shared")

----------------------------------------------------------------------------
(* Inputs *)

NoAttrs == [p \in {} |-> Absent]

\* key vaults a key_vault_id reference can resolve to
KeyVaultAttrs ==
    { [p \in {"location", "sku_name"} |->
          IF p = "location" THEN loc ELSE sku] :
        loc \in {Absent, JString("eastus")},
        sku \in {JString("standard"), JString("premium")} }

KeyVaultRefs ==
    {<<>>} \cup
    { << [Type |-> "azurerm_key_vault", Address |-> "azurerm_key_vault.kv",
          attrs |-> a, refs |-> NoAttrs] >> : a \in KeyVaultAttrs }

KeyVaultKeyResources ==
    { [ Type |-> "azurerm_key_vault_key",
        Address |-> "azurerm_key_vault_key.key",
        attrs |-> [p \in {"key_type", "key_size"} |->
                      IF p = "key_type" THEN kt ELSE ks],
        refs |-> [p \in {"key_vault_id"} |-> kv],
        root_block_device |-> NoAttrs,
        ebs_block_device |-> <<>> ] :
        kt \in {JString("RSA"), JString("RSA-HSM"), JString("EC"), JString("EC-HSM")},
        ks \in {Absent, JNumber(2048), JNumber(4096)},
        kv \in KeyVaultRefs }

OperationCounts == {Absent, JNumber(0), JNumber(25000)}

\* hsm_protected_keys values at and just above every tier threshold
KeyCounts == { t + k : t \in {0, 250, 1500, 4000}, k \in 0..MaxOver }

KeyVaultKeyUsageKeys ==
    { "monthly_secrets_operations", "monthly_certificate_renewal_requests",
      "monthly_certificate_other_operations", "monthly_key_rotation_renewals",
      "monthly_protected_keys_operations", "hsm_protected_keys" }

KeyVaultKeyUsages ==
    {NilUsage} \cup
    { UsageOf([k \in KeyVaultKeyUsageKeys |->
                 CASE k = "monthly_secrets_operations" -> so
                   [] k = "monthly_certificate_renewal_requests" -> cr
                   [] k = "monthly_certificate_other_operations" -> co
                   [] k = "monthly_key_rotation_renewals" -> kr
                   [] k = "monthly_protected_keys_operations" -> po
                   [] OTHER -> hk]) :
        so \in OperationCounts, cr \in OperationCounts, co \in OperationCounts,
        kr \in OperationCounts, po \in OperationCounts,
        hk \in {Absent} \cup { JNumber(n) : n \in KeyCounts } }

InstancePaths ==
    { "tenancy", "region", "instance_type", "ebs_optimized", "monitoring",
      "credit_specification.0.cpu_credits" }

BlockDevices == { NoAttrs }

RECURSIVE SeqsUpTo(_, _)
\* the sequences over S of length at most n
SeqsUpTo(S, n) ==
    IF n = 0 THEN {<<>>}
    ELSE LET shorter == SeqsUpTo(S, n - 1)
         IN  shorter \cup { Append(q, x) : q \in shorter, x \in S }

InstanceResources ==
    { [ Type |-> "aws_instance",
        Address |-> "aws_instance.web",
        attrs |-> [p \in InstancePaths |->
                     CASE p = "tenancy" -> tn
                       [] p = "region" -> JString("us-east-1")
                       [] p = "instance_type" -> it
                       [] p = "ebs_optimized" -> eo
                       [] p = "monitoring" -> mo
                       [] OTHER -> cc],
        refs |-> NoAttrs,
        root_block_device |-> rb,
        ebs_block_device |-> eb ] :
        tn \in {Absent, JString("host"), JString("dedicated"), JString("default")},
        it \in {JString("t3.micro"), JString("t4g.nano"), JString("t2.micro"),
                JString("m5.large"), JString("t3a.small")},
        eo \in {Absent, JTrue},
        mo \in {JFalse, JTrue},
        cc \in {Absent, JString("unlimited"), JString("standard")},
        rb \in { NoAttrs,
                 [p \in {"volume_type", "volume_size", "iops"} |->
                    CASE p = "volume_type" -> JString("io1")
                      [] p = "volume_size" -> JNumber(100)
                      [] OTHER -> JNumber(1000)] },
        eb \in SeqsUpTo(BlockDevices, MaxEbs) }

InstanceUsageKeys ==
    { "operating_system", "reserved_instance_type", "reserved_instance_term",
      "reserved_instance_payment_option" }

InstanceUsages ==
    {NilUsage} \cup
    { UsageOf([k \in InstanceUsageKeys |->
                 CASE k = "operating_system" -> os
                   [] k = "reserved_instance_type" -> rt
                   [] k = "reserved_instance_term" -> tm
                   [] OTHER -> po]) :
        os \in {Absent, JString("Windows"), JString("solaris")},
        rt \in {Absent, JString(""), JString("standard")},
        tm \in {Absent, JString("1_year"), JString("5_year")},
        po \in {Absent, JString("no_upfront")} }

----------------------------------------------------------------------------
(* The engine: one handler invocation per resource *)

NoResult == [kind |-> "none", warnings |-> <<>>]

Init ==
    /\ \/ d \in KeyVaultKeyResources /\ u \in KeyVaultKeyUsages
       \/ d \in InstanceResources /\ u \in InstanceUsages
    /\ pc = "ready"
    /\ result = NoResult
    /\ warnings = <<>>

\* the outcome of a handler becomes the outcome of the run
Finish(out) ==
    /\ result' = out
    /\ warnings' = warnings \o out.warnings
    /\ pc' = IF out.kind = "panic" THEN "panicked" ELSE "done"
    /\ UNCHANGED <<d, u>>

\* the registry names NewAzureKeyVaultKey for azurerm_key_vault_key
RunKeyVaultKey ==
    /\ pc = "ready"
    /\ d.Type = "azurerm_key_vault_key"
    /\ Finish(NewAzureKeyVaultKey(d, u))

\* the registry names NewInstance for aws_instance
RunInstance ==
    /\ pc = "ready"
    /\ d.Type = "aws_instance"
    /\ Finish(NewInstance(d, u))

Next == RunKeyVaultKey \/ RunInstance

Spec == Init /\ [][Next]_vars

----------------------------------------------------------------------------
(* Properties *)

KeyDone == d.Type = "azurerm_key_vault_key" /\ pc # "ready"
KeyReturned == KeyDone /\ result.kind = "resource"
InstanceDone == d.Type = "aws_instance" /\ pc # "ready"
InstanceReturned == InstanceDone /\ result.kind = "resource"

\* the indices of the returned cost components that satisfy P
Where(P(_)) ==
    { i \in DOMAIN result.resource.CostComponents : P(result.resource.CostComponents[i]) }

Component(i) == result.resource.CostComponents[i]

\* the usage value of a key, when the usage data supplies it
Supplied(key) == ~u.isNil /\ key \in DOMAIN u.data /\ u.data[key].Type # "Null"

\* the value of the meterName attribute filter of a key vault component
MeterOf(c) ==
    LET i == CHOOSE j \in DOMAIN c.ProductFilter.AttributeFilters :
                 c.ProductFilter.AttributeFilters[j].Key = "meterName"
    IN  c.ProductFilter.AttributeFilters[i].Value.val

\* C1: the azurerm_key_vault_key handler never panics, whatever the
\* key_vault_id reference resolves to; when the referenced vault gives no
\* location it logs a warning and returns nil.
C1_NeverPanics ==
    KeyDone =>
        /\ result.kind # "panic"
        /\ LET kv == d.refs["key_vault_id"]
           IN  (kv = <<>> \/ kv[1].attrs["location"].Type = "Null") =>
                   /\ result.kind = "nil"
                   /\ Len(warnings) = 1
                   /\ warnings[1].level = "warning"

\* C2: an aws_instance with tenancy "host" is skipped whatever the usage data:
\* NewInstance returns nil and logs a warning naming the resource address;
\* for every other tenancy the result is a resource.
C2_HostTenancySkipped ==
    InstanceDone =>
        IF d.attrs["tenancy"] = JString("host")
        THEN /\ result.kind = "nil"
             /\ \E i \in DOMAIN warnings :
                    warnings[i].level = "warning" /\ warnings[i].arg = d.Address
        ELSE /\ result.kind = "resource"
             /\ Len(result.resource.CostComponents) >= 1
             /\ Len(result.resource.SubResources) >= 1

C2_Witness ==
    /\ InstanceDone
    /\ d.attrs["tenancy"] = JString("host")
    /\ Supplied("reserved_instance_type")
    /\ result.kind = "nil"

\* C3: every key that is not skipped emits exactly one of the two key
\* protection variants: "Software-protected keys" or "HSM-protected keys",
\* never both and never neither.
C3_ExactlyOneKeyVariant ==
    KeyReturned =>
        LET software == Where(LAMBDA c : c.Name = "Software-protected keys") # {}
            hsm == Where(LAMBDA c : HasPrefix(c.Name, "HSM-protected keys")) # {}
        IN  software # hsm

\* numerator and denominator of value / blockSize, compared by cross
\* multiplication
IsQuotient(q, value, blockSize) == q.num * blockSize = value * q.den

UsageBilled(name, unit, key, blockSize) ==
    LET at == Where(LAMBDA c : c.Name = name /\ c.Unit = unit)
    IN  /\ Cardinality(at) = 1
        /\ \A i \in at :
              /\ Component(i).MonthlyQuantity.set <=> Supplied(key)
              /\ Supplied(key) =>
                    IsQuotient(Component(i).MonthlyQuantity.val, u.data[key].Num, blockSize)

\* C4: each of the four always-emitted usage-billed components has a nil
\* monthly quantity exactly when its usage key is absent (or no usage data is
\* given); otherwise the quantity is the usage value divided by the block
\* size, 10000 for "10K transactions" and 1 for "renewals"; a supplied 0
\* gives the quantity 0.
C4_UsageQuantities ==
    KeyReturned =>
        /\ UsageBilled("Secrets operations", "10K transactions",
                       "monthly_secrets_operations", 10000)
        /\ UsageBilled("Certificate operations", "renewals",
                       "monthly_certificate_renewal_requests", 1)
        /\ UsageBilled("Certificate operations", "10K transactions",
                       "monthly_certificate_other_operations", 10000)
        /\ UsageBilled("Storage key rotation", "renewals",
                       "monthly_key_rotation_renewals", 1)

C4_Witness ==
    /\ KeyReturned
    /\ Supplied("monthly_secrets_operations")
    /\ u.data["monthly_secrets_operations"].Num = 25000
    /\ Supplied("monthly_certificate_renewal_requests")
    /\ u.data["monthly_certificate_renewal_requests"].Num = 0
    /\ ~Supplied("monthly_key_rotation_renewals")
    /\ \E i \in Where(LAMBDA c : c.Name = "Certificate operations" /\ c.Unit = "renewals") :
           Component(i).MonthlyQuantity = decimalPtr(DecZero)

\* an advanced HSM key on a Premium vault whose key count the usage supplies
TieredKey ==
    /\ KeyReturned
    /\ d.attrs["key_type"].Str \in {"RSA-HSM", "EC-HSM"}
    /\ d.refs["key_vault_id"][1].attrs["sku_name"].Str \in {"premium", "Premium"}
    /\ ~(d.attrs["key_type"].Str = "RSA-HSM" /\ d.attrs["key_size"] = JNumber(2048))
    /\ Supplied("hsm_protected_keys")

KeyCount == u.data["hsm_protected_keys"].Num

TierNames ==
    << "HSM-protected keys (first 250)", "HSM-protected keys (next 1250)",
       "HSM-protected keys (next 2500)", "HSM-protected keys (over 4000)" >>
TierStarts == <<0, 250, 1500, 4000>>
TierStartUsage == <<"0", "250", "1500", "4000">>

\* the part of n that falls between the start of tier j and the next start
ExpectedBucket(n, j) ==
    LET above == IF n > TierStarts[j] THEN n - TierStarts[j] ELSE 0
    IN  IF j < 4 /\ above > TierStarts[j + 1] - TierStarts[j]
        THEN TierStarts[j + 1] - TierStarts[j]
        ELSE above

\* the emitted "months" components, in the order of emission
MonthsComponents ==
    SelectSeq(result.resource.CostComponents, LAMBDA c : c.Unit = "months")

\* C5: the tiered "HSM-protected keys" components come in ascending tier
\* order; the first tier is always emitted, a later tier exactly when its
\* bucket is greater than 0, so the emitted tiers are a gap-free prefix of
\* the tier list.
C5_TierPrefix ==
    TieredKey =>
        LET emitted == MonthsComponents
            k == Len(emitted)
        IN  /\ k \in 1..4
            /\ \A j \in 1..k :
                  /\ emitted[j].Name = TierNames[j]
                  /\ emitted[j].PriceFilter.StartUsageAmount = strPtr(TierStartUsage[j])
            /\ \A j \in 2..4 : (j <= k) <=> (ExpectedBucket(KeyCount, j) > 0)

C5_Witness ==
    /\ TieredKey
    /\ KeyCount = 0
    /\ Len(MonthsComponents) = 1
    /\ MonthsComponents[1].Name = "HSM-protected keys (first 250)"
    /\ MonthsComponents[1].MonthlyQuantity = decimalPtr(DecZero)

RECURSIVE SumNum(_, _)
SumNum(q, i) == IF i > Len(q) THEN 0 ELSE q[i].num + SumNum(q, i + 1)

\* C6: for the widths 250, 1250, 2500 the allocator returns 4 buckets, each
\* >= 0, bucket i being min(remaining, width i) and the last the remainder;
\* the buckets, and the monthly quantities of the emitted tier components,
\* sum to the key count n; for n = 0 every bucket is 0.
C6_BucketsSumToTotal ==
    TieredKey =>
        LET b == CalculateTierBuckets(NewFromInt(KeyCount), tierLimits)
            emitted == MonthsComponents
            quantities == [j \in 1..Len(emitted) |-> emitted[j].MonthlyQuantity.val]
        IN  /\ Len(b) = 4
            /\ \A j \in 1..4 :
                  /\ b[j].den = 1
                  /\ b[j].num >= 0
                  /\ b[j].num = ExpectedBucket(KeyCount, j)
            /\ b[4].num = (IF KeyCount > 4000 THEN KeyCount - 4000 ELSE 0)
            /\ SumNum(b, 1) = KeyCount
            /\ KeyCount = 0 => \A j \in 1..4 : b[j] = DecZero
            /\ \A j \in 1..Len(emitted) : emitted[j].MonthlyQuantity.set
            /\ \A j \in 1..Len(quantities) : quantities[j].den = 1
            /\ SumNum(quantities, 1) = KeyCount

C6_Witness ==
    /\ TieredKey
    /\ KeyCount = 4001
    /\ Len(MonthsComponents) = 4
    /\ MonthsComponents[4].MonthlyQuantity = decimalPtr(NewFromInt(1))

OsLabels == {"Linux/UNIX", "Windows", "RHEL", "SUSE"}

\* the component name carries the purchase-option label
HasLabel(c, label) ==
    \E os \in OsLabels :
        c.Name = "Instance usage (" \o os \o ", " \o label \o ", "
                 \o d.attrs["instance_type"].Str \o ")"

\* the price filter of the reserved path
ReservedFilter(c) ==
    /\ c.PriceFilter.TermOfferingClass.set
    /\ c.PriceFilter.TermLength.set
    /\ c.PriceFilter.TermPurchaseOption.set
    /\ ~c.PriceFilter.PurchaseOption.set

InstanceUsage == Where(LAMBDA c : HasPrefix(c.Name, "Instance usage ("))

\* the usage data supplies a reserved instance type, term and payment option
ReservedSupplied ==
    /\ Supplied("reserved_instance_type")
    /\ u.data["reserved_instance_type"].Str # ""
    /\ Supplied("reserved_instance_term")
    /\ Supplied("reserved_instance_payment_option")

\* C7: when the usage data supplies a reserved instance type, term and
\* payment option, the one instance-usage component is built by the reserved
\* path: term offering class, length and payment option set, no on-demand
\* purchase option, and the label "reserved" in its name.
C7_ReservedPath ==
    (InstanceReturned /\ ReservedSupplied) =>
        /\ Cardinality(InstanceUsage) = 1
        /\ \A i \in InstanceUsage :
              /\ ReservedFilter(Component(i))
              /\ Component(i).PriceFilter.TermOfferingClass.val
                    = u.data["reserved_instance_type"].Str
              /\ HasLabel(Component(i), "reserved")

C7_Witness ==
    /\ InstanceReturned
    /\ ReservedSupplied
    /\ u.data["reserved_instance_term"].Str = "1_year"
    /\ \E i \in InstanceUsage :
           /\ Component(i).PriceFilter.TermLength = strPtr("1yr")
           /\ Component(i).PriceFilter.TermPurchaseOption = strPtr("No Upfront")

\* t is the text of s before its first ".", or all of s
IsFamilyOf(t, s) ==
    \E k \in 0..Len(s) :
        /\ t = SubSeq(s, 1, k)
        /\ k = Len(s) \/ CharAt(s, k + 1) = "."
        /\ \A j \in 1..k : CharAt(s, j) # "."

\* C8: with no credit specification a "CPU credits" component is emitted
\* exactly when instance_type begins with "t3." or "t4g."; its usagetype
\* filter is built from the text of the instance type before the first ".".
C8_CpuCredits ==
    (InstanceReturned /\ d.attrs["credit_specification.0.cpu_credits"].Type = "Null") =>
        LET it == d.attrs["instance_type"].Str
            credits == Where(LAMBDA c : c.Name = "CPU credits")
            burstable == \/ (Len(it) >= 3 /\ SubSeq(it, 1, 3) = "t3.")
                         \/ (Len(it) >= 4 /\ SubSeq(it, 1, 4) = "t4g.")
        IN  /\ (credits # {}) <=> burstable
            /\ Cardinality(credits) <= 1
            /\ \A i \in credits :
                  \E j \in DOMAIN Component(i).ProductFilter.AttributeFilters :
                      LET f == Component(i).ProductFilter.AttributeFilters[j]
                      IN  /\ f.Key = "usagetype"
                          /\ f.ValueRegex.set
                          /\ \E t \in {"t3", "t4g", "t2", "m5", "t3a"} :
                                 /\ IsFamilyOf(t, it)
                                 /\ f.ValueRegex.val = "/CPUCredits:" \o t \o "$/"

C8_Witness ==
    /\ InstanceReturned
    /\ d.attrs["credit_specification.0.cpu_credits"].Type = "Null"
    /\ d.attrs["instance_type"].Str = "t4g.nano"
    /\ \E i \in Where(LAMBDA c : c.Name = "CPU credits") :
           Component(i).ProductFilter.AttributeFilters[2].ValueRegex = strPtr("/CPUCredits:t4g$/")

\* C9: every "HSM-protected keys" component billed in "months", the one with
\* unknown quantity included, filters on an HSM key meter name.
C9_HsmKeyMeter ==
    KeyReturned =>
        \A i \in Where(LAMBDA c : HasPrefix(c.Name, "HSM-protected keys") /\ c.Unit = "months") :
            MeterOf(Component(i)) \in { "Premium HSM-protected RSA 2048-bit key",
                                        "Premium HSM-protected Advanced Key" }

\* C10: the instance-usage component is labelled "reserved" exactly when it
\* was built by the reserved price-filter path.
C10_ReservedLabelMatchesFilter ==
    InstanceReturned =>
        \A i \in InstanceUsage :
            HasLabel(Component(i), "reserved") <=> ReservedFilter(Component(i))

====
